---------------------------- MODULE Spec2Model ----------------------------
(***************************************************************************)
(* A model of backend/parser/dependency_analyzer.py: the DependencyGraph   *)
(* held by a DependencyAnalyzer, its two mutating operations (add_file,    *)
(* analyze_dependencies) and its queries.                                  *)
(*                                                                         *)
(* Strings that the code takes apart (file paths, include paths) are       *)
(* sequences of characters, so that Path(p).name, Path(p).parent,          *)
(* str.endswith and the "/" join are computed and not assumed.  Python's   *)
(* None is the empty sequence; the empty string is not among the paths     *)
(* modelled, and both are falsy for the test at line 73.                   *)
(*                                                                         *)
(* A dict is a function (its keys are its DOMAIN); where the code relies   *)
(* on a dict's insertion order (graph.files), the order of the keys is     *)
(* kept next to it (fileKeys).  A set[str] is iterated in an order that    *)
(* is fixed for the set object but not by its value: FileSymbols'          *)
(* function_calls is the sequence in which the set is iterated, and the    *)
(* inputs enumerate the orders.                                            *)
(***************************************************************************)
EXTENDS Integers, Sequences, FiniteSets, Bags, TLC

\* The number of add_file calls of one run (the code has no such limit).
MaxAdds == 3

\* The same, for the runs over the star-shaped project (hub and four leaves).
MaxAddsStar == 5

\* analyze_dependencies passes counted between two add_file calls.
MaxPasses == 2

VARIABLES
    fileKeys,       \* graph.files.keys(), in dict (first insertion) order
    files,          \* graph.files: file_path -> FileSymbols
    file_index,     \* graph.file_index: file name -> file_path
    symbol_index,   \* graph.symbol_index: symbol name -> <<(file, symbol)>>
    dependencies,   \* graph.dependencies: sequence of FileDependency
    corpus,         \* which project the add_file calls draw their inputs from
    addLog,         \* history: the file_path of every add_file call, in order
    passes,         \* history: analyze passes run since the last add_file
    extracted       \* how the last AstExtractor.extract_file call ended

vars == <<fileKeys, files, file_index, symbol_index, dependencies,
          corpus, addLog, passes, extracted>>

---------------------------------------------------------------------------
(* Python values *)

None == <<>>

EmptyDict == <<>>

\* d[k] = v on a dict
DictSet(d, k, v) == [x \in (DOMAIN d) \cup {k} |-> IF x = k THEN v ELSE d[x]]

\* d.get(k, default)
DictGet(d, k, default) == IF k \in DOMAIN d THEN d[k] ELSE default

\* str.endswith
EndsWith(s, suffix) ==
    /\ Len(suffix) <= Len(s)
    /\ SubSeq(s, Len(s) - Len(suffix) + 1, Len(s)) = suffix

\* index of the last "/" of a path, 0 when it has none
LastSlash(p) ==
    LET S == {i \in 1..Len(p) : p[i] = "/"}
    IN  IF S = {} THEN 0 ELSE CHOOSE i \in S : \A j \in S : j <= i

\* Path(p).name, for the path "." (whose name is empty) and for a relative
\* path without "." or ".." parts or a trailing "/"
PathName(p) == IF p = <<".">> THEN <<>> ELSE SubSeq(p, LastSlash(p) + 1, Len(p))

\* Path(p).parent, for the same paths: "." when p has no directory
PathParent(p) ==
    IF LastSlash(p) = 0 THEN <<".">> ELSE SubSeq(p, 1, LastSlash(p) - 1)

\* str(dir / rel) for a relative rel: a "." on either side is dropped
PathJoin(dir, rel) ==
    IF rel = <<".">> THEN dir
    ELSE IF dir = <<".">> THEN rel
    ELSE dir \o <<"/">> \o rel

---------------------------------------------------------------------------
(* The records of ast_extractor.py, with the fields the analyzer reads *)

SymbolInfo(name, type, line) == [name |-> name, type |-> type, line |-> line]

IncludeInfo(path, line) == [path |-> path, line |-> line]

FileSymbols(functions, classes, structs, includes, function_calls) ==
    [functions |-> functions, classes |-> classes, structs |-> structs,
     includes |-> includes, function_calls |-> function_calls]

\* FileSymbols(file_path=...) with every default: what a failed parse yields
EmptyFileSymbols == FileSymbols(<<>>, <<>>, <<>>, <<>>, <<>>)

FileDependency(source, target, reason, line) ==
    [source |-> source, target |-> target, reason |-> reason, line |-> line]

\* line=None of a 'call' edge (include lines are 1-based)
NoLine == 0

---------------------------------------------------------------------------
(* The inputs: three small projects.  Each is the set of <<file_path,      *)
(* FileSymbols>> pairs that add_file may be called with, in any order and  *)
(* any number of times.                                                    *)

P_M  == <<"M">>
P_U  == <<"U">>
P_aU == <<"a", "/", "U">>
P_bU == <<"b", "/", "U">>

\* the file "xU": it ends with the characters of "U" and is named "xU"
P_xU == <<"x", "U">>

\* a header of no analysed file (a system header)
P_Q  == <<"Q">>

\* defines f twice (a function and a struct) and the class g
Header ==
    FileSymbols(<<SymbolInfo("f", "function", 1)>>,
                <<SymbolInfo("g", "class", 2)>>,
                <<SymbolInfo("f", "struct", 3)>>, <<>>, <<>>)

\* defines f, includes "U", "a/U" and <Q>, calls f and g
User(function_calls) ==
    FileSymbols(<<SymbolInfo("f", "function", 1)>>, <<>>, <<>>,
                <<IncludeInfo(P_U, 1), IncludeInfo(P_aU, 2), IncludeInfo(P_Q, 3)>>,
                function_calls)

CollideProject ==
    { <<P_M, User(<<"f", "g">>)>>, <<P_M, User(<<"g", "f">>)>>,
      <<P_aU, Header>>, <<P_aU, User(<<"f", "g">>)>>,
      <<P_bU, Header>>, <<P_bU, EmptyFileSymbols>>,
      <<P_U, Header>>, <<P_xU, EmptyFileSymbols>> }

P_A == <<"A">>
P_B == <<"B">>
P_C == <<"C">>

Including(paths) ==
    FileSymbols(<<>>, <<>>, <<>>,
                [i \in 1..Len(paths) |-> IncludeInfo(paths[i], i)], <<>>)

RingProject ==
    { <<P_A, Including(<<P_B, P_B>>)>>,
      <<P_B, Including(<<P_C>>)>>, <<P_B, Including(<<P_C, P_A>>)>>,
      <<P_C, Including(<<P_A>>)>>, <<P_C, Including(<<>>)>>,
      <<P_C, Including(<<P_C>>)>> }

P_dP == <<"d", "/", "P">>
P_dQ == <<"d", "/", "Q">>
P_dR == <<"d", "/", "R">>
P_dS == <<"d", "/", "S">>

StarProject ==
    { <<P_M, Including(<<P_dP, P_dQ, P_dR, P_dS>>)>>,
      <<P_dP, EmptyFileSymbols>>, <<P_dQ, EmptyFileSymbols>>,
      <<P_dR, EmptyFileSymbols>>, <<P_dS, EmptyFileSymbols>> }

P_H   == <<"H">>
P_a   == <<"a">>
P_Dot == <<".">>
P_xH  == <<"x", "H">>
P_sH  == <<"s", "/", "H">>
P_bH  == <<"b", "/", "H">>
P_asH == <<"a", "/", "s", "/", "H">>
P_bsH == <<"b", "/", "s", "/", "H">>
P_aM  == <<"a", "/", "M">>
P_bM  == <<"b", "/", "M">>

\* headers in nested directories, included by the partial path "s/H", and a
\* file "a" next to the files of "a/", one of which includes "."
NestedProject ==
    { <<P_aM, Including(<<P_sH, P_Q, P_Dot>>)>>, <<P_bM, Including(<<P_sH>>)>>,
      <<P_a, EmptyFileSymbols>>,
      <<P_asH, EmptyFileSymbols>>, <<P_asH, Including(<<P_H>>)>>,
      <<P_bsH, EmptyFileSymbols>>, <<P_bH, EmptyFileSymbols>>,
      <<P_xH, EmptyFileSymbols>> }

Project(c) ==
    CASE c = "collide" -> CollideProject
      [] c = "ring"    -> RingProject
      [] c = "star"    -> StarProject
      [] c = "nested"  -> NestedProject

\* every path a run over project c can name: file paths and include paths
PathsOf(c) ==
    {in[1] : in \in Project(c)}
    \cup UNION {{in[2].includes[i].path : i \in DOMAIN in[2].includes} : in \in Project(c)}

AddLimit == IF corpus = "star" THEN MaxAddsStar ELSE MaxAdds

---------------------------------------------------------------------------
(* add_file *)

\* the first file of a name kept
KeepFirstFileIndex(index, file_name, file_path) ==
    IF file_name \in DOMAIN index THEN index ELSE DictSet(index, file_name, file_path)

\* self.graph.file_index[file_name] = file_path
UpdateFileIndex(index, file_name, file_path) == DictSet(index, file_name, file_path)

\* the two loops of add_file over the symbols of one file
RECURSIVE IndexSymbols(_, _, _)
IndexSymbols(index, file_path, symbol_list) ==
    IF symbol_list = <<>> THEN index
    ELSE LET symbol == Head(symbol_list)
             entries == DictGet(index, symbol.name, <<>>)
         IN  IndexSymbols(
                 DictSet(index, symbol.name,
                         Append(entries, [file |-> file_path, symbol |-> symbol])),
                 file_path, Tail(symbol_list))

\* [symbols.functions, symbols.classes, symbols.structs], flattened
IndexedSymbols(symbols) == symbols.functions \o symbols.classes \o symbols.structs

\* an add_file that also drops the edges of the last pass
add_file_and_clear(file_path, symbols) ==
    /\ Len(addLog) < AddLimit
    /\ fileKeys' = IF file_path \in DOMAIN files THEN fileKeys
                   ELSE Append(fileKeys, file_path)
    /\ files' = DictSet(files, file_path, symbols)
    /\ file_index' = UpdateFileIndex(file_index, PathName(file_path), file_path)
    /\ symbol_index' = IndexSymbols(symbol_index, file_path, IndexedSymbols(symbols))
    /\ addLog' = Append(addLog, file_path)
    /\ passes' = 0
    /\ dependencies' = <<>>
    /\ UNCHANGED <<corpus, extracted>>

add_file(file_path, symbols) ==
    /\ Len(addLog) < AddLimit
    /\ fileKeys' = IF file_path \in DOMAIN files THEN fileKeys
                   ELSE Append(fileKeys, file_path)
    /\ files' = DictSet(files, file_path, symbols)
    /\ file_index' = UpdateFileIndex(file_index, PathName(file_path), file_path)
    /\ symbol_index' = IndexSymbols(symbol_index, file_path, IndexedSymbols(symbols))
    /\ addLog' = Append(addLog, file_path)
    /\ passes' = 0
    /\ UNCHANGED <<dependencies, corpus, extracted>>

---------------------------------------------------------------------------
(* _resolve_include *)

\* the element of seq at the least index of `found`, or None: what a loop over
\* seq returns that returns at the first element it finds
FirstFound(seq, found) ==
    IF found = {} THEN None ELSE seq[CHOOSE i \in found : \A j \in found : i <= j]

\* Strategy 1: exact match
ExactMatch(include_path) ==
    IF include_path \in DOMAIN files THEN include_path ELSE None

\* Strategy 2: filename match
FilenameMatch(include_path) ==
    DictGet(file_index, PathName(include_path), None)

\* Strategy 3: suffix match
SuffixMatch(include_path) ==
    FirstFound(fileKeys,
               {i \in 1..Len(fileKeys) : EndsWith(fileKeys[i], include_path)})

\* Strategy 4: relative to the source file's directory
RelativeMatch(include_path, source_file) ==
    LET potential_path == PathJoin(PathParent(source_file), include_path)
    IN  IF potential_path \in DOMAIN files THEN potential_path ELSE None

\* Strategy 5: search in all directories
NameScan(include_path) ==
    FirstFound(fileKeys,
               {i \in 1..Len(fileKeys) : PathName(fileKeys[i]) = PathName(include_path)})

\* the filename match tried before the exact match
ResolveIncludeNameFirst(include_path, source_file) ==
    IF FilenameMatch(include_path) # None THEN FilenameMatch(include_path)
    ELSE IF ExactMatch(include_path) # None THEN ExactMatch(include_path)
    ELSE IF SuffixMatch(include_path) # None THEN SuffixMatch(include_path)
    ELSE IF RelativeMatch(include_path, source_file) # None
         THEN RelativeMatch(include_path, source_file)
    ELSE NameScan(include_path)

\* the source file's directory tried before the filename match
ResolveIncludeRelativeFirst(include_path, source_file) ==
    IF ExactMatch(include_path) # None THEN ExactMatch(include_path)
    ELSE IF RelativeMatch(include_path, source_file) # None
         THEN RelativeMatch(include_path, source_file)
    ELSE IF FilenameMatch(include_path) # None THEN FilenameMatch(include_path)
    ELSE IF SuffixMatch(include_path) # None THEN SuffixMatch(include_path)
    ELSE NameScan(include_path)

ResolveInclude(include_path, source_file) ==
    IF ExactMatch(include_path) # None THEN ExactMatch(include_path)
    ELSE IF FilenameMatch(include_path) # None THEN FilenameMatch(include_path)
    ELSE IF SuffixMatch(include_path) # None THEN SuffixMatch(include_path)
    ELSE IF RelativeMatch(include_path, source_file) # None
         THEN RelativeMatch(include_path, source_file)
    ELSE NameScan(include_path)

---------------------------------------------------------------------------
(* analyze_dependencies *)

\* the edges of the earlier pass kept
KeepDependencies(deps) == deps

\* self.graph.dependencies.clear()
ClearDependencies(deps) == <<>>

\* the test on the resolver's result left out
AlwaysResolved(target_file) == TRUE

\* if target_file:
IncludeResolved(target_file) == target_file # None

RECURSIVE AnalyzeIncludes(_, _, _)
AnalyzeIncludes(deps, source_file, includes) ==
    IF includes = <<>> THEN deps
    ELSE LET include == Head(includes)
             target_file == ResolveInclude(include.path, source_file)
             appended ==
                 IF IncludeResolved(target_file)
                 THEN Append(deps, FileDependency(source_file, target_file,
                                                  "include", include.line))
                 ELSE deps
         IN  AnalyzeIncludes(appended, source_file, Tail(includes))

\* only the 'call' edges looked at
HasCallDependency(deps, source, target) ==
    \E i \in 1..Len(deps) :
        deps[i].source = source /\ deps[i].target = target /\ deps[i].reason = "call"

\* any edge of the source taken as an edge to the target
HasDependencyFrom(deps, source, target) ==
    \E i \in 1..Len(deps) : deps[i].source = source

HasDependency(deps, source, target) ==
    \E i \in 1..Len(deps) : deps[i].source = source /\ deps[i].target = target

\* the self-call test left out
NeverSelfCall(target_file, source_file) == FALSE

\* if target_file == source_file: continue
IsSelfCall(target_file, source_file) == target_file = source_file

\* the inner loop of _analyze_function_calls, over symbol_index[called_func]
RECURSIVE AnalyzeCallTargets(_, _, _)
AnalyzeCallTargets(deps, source_file, entries) ==
    IF entries = <<>> THEN deps
    ELSE LET target_file == Head(entries).file
             appended ==
                 IF IsSelfCall(target_file, source_file) THEN deps
                 ELSE IF ~HasDependency(deps, source_file, target_file)
                      THEN Append(deps, FileDependency(source_file, target_file,
                                                       "call", NoLine))
                      ELSE deps
         IN  AnalyzeCallTargets(appended, source_file, Tail(entries))

\* the outer loop, over symbols.function_calls in the set's iteration order
RECURSIVE AnalyzeFunctionCalls(_, _, _)
AnalyzeFunctionCalls(deps, source_file, function_calls) ==
    IF function_calls = <<>> THEN deps
    ELSE LET called_func == Head(function_calls)
             appended ==
                 IF called_func \in DOMAIN symbol_index
                 THEN AnalyzeCallTargets(deps, source_file, symbol_index[called_func])
                 ELSE deps
         IN  AnalyzeFunctionCalls(appended, source_file, Tail(function_calls))

\* the loop of analyze_dependencies over the items of a files dict
RECURSIVE AnalyzeFilesOf(_, _, _)
AnalyzeFilesOf(deps, keys, items) ==
    IF keys = <<>> THEN deps
    ELSE LET file_path == Head(keys)
             symbols == items[file_path]
             included == AnalyzeIncludes(deps, file_path, symbols.includes)
             called == AnalyzeFunctionCalls(included, file_path, symbols.function_calls)
         IN  AnalyzeFilesOf(called, Tail(keys), items)

\* the loop of analyze_dependencies over self.graph.files.items()
AnalyzeFiles(deps, keys) == AnalyzeFilesOf(deps, keys, files)

analyze_dependencies ==
    /\ passes < MaxPasses
    /\ dependencies' = AnalyzeFiles(ClearDependencies(dependencies), fileKeys)
    /\ passes' = passes + 1
    /\ UNCHANGED <<fileKeys, files, file_index, symbol_index, corpus, addLog,
                   extracted>>

---------------------------------------------------------------------------
(* The queries *)

GetDependenciesOf(file_path) ==
    LET FromFile(dep) == dep.source = file_path
        found == SelectSeq(dependencies, FromFile)
    IN  [i \in 1..Len(found) |-> found[i].target]

\* a file not counted among its own dependents
GetOtherDependentsOf(file_path) ==
    LET ToFile(dep) == dep.target = file_path /\ dep.source # file_path
        found == SelectSeq(dependencies, ToFile)
    IN  [i \in 1..Len(found) |-> found[i].source]

GetDependentsOf(file_path) ==
    LET ToFile(dep) == dep.target = file_path
        found == SelectSeq(dependencies, ToFile)
    IN  [i \in 1..Len(found) |-> found[i].source]

GetFileMetrics(file_path) ==
    IF file_path \notin DOMAIN files THEN EmptyDict
    ELSE LET symbols == files[file_path]
             deps == GetDependenciesOf(file_path)
             dependents == GetDependentsOf(file_path)
         IN  [file |-> file_path,
              functions_count |-> Len(symbols.functions),
              classes_count |-> Len(symbols.classes),
              structs_count |-> Len(symbols.structs),
              includes_count |-> Len(symbols.includes),
              dependencies_count |-> Len(deps),
              dependents_count |-> Len(dependents),
              coupling |-> Len(deps) + Len(dependents)]

\* G = nx.DiGraph(); G.add_edge(dep.source, dep.target) for every dep: a
\* DiGraph holds one edge per ordered pair.  The nodes of G, in the order in
\* which add_edge first names them
RECURSIVE DiGraphNodes(_, _)
DiGraphNodes(nodes, deps) ==
    IF deps = <<>> THEN nodes
    ELSE LET dep == Head(deps)
             InNodes(seq, n) == \E i \in 1..Len(seq) : seq[i] = n
             withSource == IF InNodes(nodes, dep.source) THEN nodes
                           ELSE Append(nodes, dep.source)
             withTarget == IF InNodes(withSource, dep.target) THEN withSource
                           ELSE Append(withSource, dep.target)
         IN  DiGraphNodes(withTarget, Tail(deps))

\* the edges of G in the order of their first add_edge
RECURSIVE DiGraphEdges(_, _)
DiGraphEdges(edges, deps) ==
    IF deps = <<>> THEN edges
    ELSE LET edge == <<Head(deps).source, Head(deps).target>>
         IN  DiGraphEdges(IF \E i \in 1..Len(edges) : edges[i] = edge THEN edges
                          ELSE Append(edges, edge),
                          Tail(deps))

\* a graph that keeps one edge for every add_edge (nx.MultiDiGraph)
BuildMultiDiGraph(deps) ==
    [nodes |-> DiGraphNodes(<<>>, deps),
     edges |-> [i \in 1..Len(deps) |-> <<deps[i].source, deps[i].target>>]]

BuildDiGraph(deps) ==
    [nodes |-> DiGraphNodes(<<>>, deps), edges |-> DiGraphEdges(<<>>, deps)]

\* the number of edges of G from node a to node b
EdgeCount(G, a, b) == Cardinality({i \in 1..Len(G.edges) : G.edges[i] = <<a, b>>})

\* the simple paths got from those of `paths` by one more edge of G, kept to
\* the nodes that come after the path's first node
ExtendPaths(G, paths) ==
    LET Rank(n) == CHOOSE i \in 1..Len(G.nodes) : G.nodes[i] = n
        Steps == {pn \in paths \X {G.nodes[i] : i \in 1..Len(G.nodes)} :
                     /\ EdgeCount(G, pn[1][Len(pn[1])], pn[2]) > 0
                     /\ \A i \in 1..Len(pn[1]) : pn[1][i] # pn[2]
                     /\ Rank(pn[2]) > Rank(pn[1][1])}
    IN  {Append(pn[1], pn[2]) : pn \in Steps}

RECURSIVE PathsWithin(_, _, _)
PathsWithin(G, paths, length) ==
    IF length = 0 \/ paths = {} THEN {}
    ELSE paths \cup PathsWithin(G, ExtendPaths(G, paths), length - 1)

\* the number of ways to walk the closed path p along edges of G
RECURSIVE CircuitCount(_, _, _)
CircuitCount(G, p, i) ==
    IF i > Len(p) THEN 1
    ELSE EdgeCount(G, p[i], p[(i % Len(p)) + 1]) * CircuitCount(G, p, i + 1)

\* list(nx.simple_cycles(G)): every elementary circuit of G, a self-loop as a
\* one-node cycle.  The list is modelled as a bag: each cycle, written from
\* its first node in G's node order, with the number of times the list holds
\* it; the order of the list and the rotation networkx picks are not modelled.
SimpleCycles(G) ==
    LET paths == PathsWithin(G, {<<G.nodes[i]>> : i \in 1..Len(G.nodes)}, Len(G.nodes))
        cycles == {p \in paths : CircuitCount(G, p, 1) > 0}
    IN  [p \in cycles |-> CircuitCount(G, p, 1)]

FindCircularDependencies == SimpleCycles(BuildDiGraph(dependencies))

\* the item put before the items of equal value
InsertBeforeEqual(sorted, item) ==
    LET k == Cardinality({i \in 1..Len(sorted) : sorted[i][2] > item[2]})
    IN  SubSeq(sorted, 1, k) \o <<item>> \o SubSeq(sorted, k + 1, Len(sorted))

\* where `item` goes in a list sorted by sorted(..., key=x[1], reverse=True):
\* after every item whose value is not smaller (the sort is stable)
InsertByCoupling(sorted, item) ==
    LET k == Cardinality({i \in 1..Len(sorted) : sorted[i][2] >= item[2]})
    IN  SubSeq(sorted, 1, k) \o <<item>> \o SubSeq(sorted, k + 1, Len(sorted))

RECURSIVE SortByCoupling(_, _)
SortByCoupling(sorted, items) ==
    IF items = <<>> THEN sorted
    ELSE SortByCoupling(InsertByCoupling(sorted, Head(items)), Tail(items))

\* seq[:limit]
SliceTo(seq, limit) ==
    IF limit >= 0 THEN SubSeq(seq, 1, IF limit < Len(seq) THEN limit ELSE Len(seq))
    ELSE SubSeq(seq, 1, IF Len(seq) + limit > 0 THEN Len(seq) + limit ELSE 0)

GetMostCoupledFiles(limit) ==
    LET coupling ==
            [i \in 1..Len(fileKeys) |->
                <<fileKeys[i],
                  Len(GetDependenciesOf(fileKeys[i])) + Len(GetDependentsOf(fileKeys[i]))>>]
    IN  SliceTo(SortByCoupling(<<>>, coupling), limit)

\* sub in s, for strings
Contains(s, sub) ==
    \E i \in 1..(Len(s) - Len(sub) + 1) : SubSeq(s, i, i + Len(sub) - 1) = sub

\* the file type of export_to_dict, from the suffix or the name of the path
FileType(file_path) ==
    IF \/ EndsWith(file_path, <<".", "h">>)
       \/ EndsWith(file_path, <<".", "h", "p", "p">>)
       \/ EndsWith(file_path, <<".", "h", "h">>)
    THEN "header"
    ELSE IF \/ EndsWith(file_path, <<".", "c", "p", "p">>)
            \/ EndsWith(file_path, <<".", "c", "c">>)
            \/ EndsWith(file_path, <<".", "c", "x", "x">>)
            \/ EndsWith(file_path, <<".", "c">>)
    THEN "source"
    ELSE IF \/ Contains(file_path, <<"C", "M", "a", "k", "e", "L", "i", "s", "t", "s">>)
            \/ EndsWith(file_path, <<".", "c", "m", "a", "k", "e">>)
    THEN "cmake"
    ELSE IF EndsWith(file_path, <<".", "j", "s", "o", "n">>) THEN "json"
    ELSE "other"

\* parts[-2] if len(parts) > 1 else 'root'
PathGroup(file_path) ==
    IF LastSlash(file_path) = 0 THEN <<"r", "o", "o", "t">>
    ELSE PathName(PathParent(file_path))

\* the first five functions as "name()" and the first five classes as
\* "class name"; a formatted string is the tuple of its pieces
ExportedSymbols(symbols) ==
    LET functions == SliceTo(symbols.functions, 5)
        classes == SliceTo(symbols.classes, 5)
    IN  [i \in 1..Len(functions) |->
            [name |-> <<functions[i].name, "()">>, line |-> functions[i].line,
             type |-> "function"]]
        \o [i \in 1..Len(classes) |->
            [name |-> <<"class ", classes[i].name>>, line |-> classes[i].line,
             type |-> "class"]]

ExportNodes ==
    [i \in 1..Len(fileKeys) |->
        [id |-> fileKeys[i],
         name |-> PathName(fileKeys[i]),
         type |-> FileType(fileKeys[i]),
         group |-> PathGroup(fileKeys[i]),
         exportedSymbols |-> ExportedSymbols(files[fileKeys[i]]),
         metrics |-> GetFileMetrics(fileKeys[i])]]

\* one link for every ordered pair of files that has an edge
RECURSIVE DistinctLinks(_, _)
DistinctLinks(links, deps) ==
    IF deps = <<>> THEN links
    ELSE LET dep == Head(deps)
         IN  DistinctLinks(
                 IF \E i \in 1..Len(links) :
                        links[i].source = dep.source /\ links[i].target = dep.target
                 THEN links
                 ELSE Append(links, [source |-> dep.source, target |-> dep.target,
                                     reason |-> dep.reason]),
                 Tail(deps))

\* the links of one link per pair
ExportDistinctLinks(deps) == DistinctLinks(<<>>, deps)

\* the loop of export_to_dict over self.graph.dependencies
ExportLinks(deps) ==
    [i \in 1..Len(deps) |->
        [source |-> deps[i].source, target |-> deps[i].target,
         reason |-> deps[i].reason]]

ExportToDict ==
    LET nodes == ExportNodes
        links == ExportLinks(dependencies)
    IN  [nodes |-> nodes,
         links |-> links,
         metadata |->
            [total_files |-> Len(nodes),
             total_dependencies |-> Len(links),
             circular_dependencies |-> BagCardinality(FindCircularDependencies)]]

\* the queries read the graph and return; they assign nothing
get_dependencies_of == UNCHANGED vars

get_dependents_of == UNCHANGED vars

get_file_metrics == UNCHANGED vars

find_circular_dependencies == UNCHANGED vars

get_most_coupled_files == UNCHANGED vars

export_to_dict == UNCHANGED vars

---------------------------------------------------------------------------
(* AstExtractor.extract_file and the parser calls it makes.  What the      *)
(* tree-sitter parser and the file system do is an input: whether the      *)
(* parser yields a tree, whether each open() of the file succeeds, and the *)
(* FileSymbols that the _extract_* queries read off a tree.                *)

\* root_node: None, or a tree
NoTree == "None"

Tree == "tree"

\* CppTreeSitterParser.parse_file: any exception of open(), read() or
\* parse() is caught and None returned
ParseFile(opens, parses) == IF opens /\ parses THEN Tree ELSE NoTree

\* CppTreeSitterParser.parse_string
ParseString(parses) == IF parses THEN Tree ELSE NoTree

\* no extract_file call yet
NotExtracted ==
    [outcome |-> "none", file_path |-> None, root_node |-> NoTree,
     symbols |-> EmptyFileSymbols]

\* extract_file(file_path, source_code): has_source says whether source_code
\* was passed; parser_opens and extractor_opens say whether the open() of
\* parse_file and the open() of extract_file itself succeed
extract_file(file_path, has_source, parser_opens, extractor_opens, parses, tree_symbols) ==
    LET root_node == IF has_source THEN ParseString(parses)
                     ELSE ParseFile(parser_opens, parses)
        raises == ~has_source /\ ~extractor_opens
    IN  /\ extracted' =
              IF raises
              THEN [outcome |-> "raised", file_path |-> file_path,
                    root_node |-> root_node, symbols |-> EmptyFileSymbols]
              ELSE [outcome |-> "returned", file_path |-> file_path,
                    root_node |-> root_node,
                    symbols |-> IF root_node = NoTree THEN EmptyFileSymbols
                                ELSE tree_symbols]
        /\ UNCHANGED <<fileKeys, files, file_index, symbol_index, dependencies,
                       corpus, addLog, passes>>

---------------------------------------------------------------------------
(* The state machine *)

\* DependencyAnalyzer(): an empty DependencyGraph, before any file of project c
InitOn(c) ==
    /\ fileKeys = <<>>
    /\ files = EmptyDict
    /\ file_index = EmptyDict
    /\ symbol_index = EmptyDict
    /\ dependencies = <<>>
    /\ corpus = c
    /\ addLog = <<>>
    /\ passes = 0
    /\ extracted = NotExtracted

Init == InitOn("collide")

InitRing == InitOn("ring")

InitStar == InitOn("star")

Next ==
    \/ \E in \in Project(corpus) : add_file(in[1], in[2])
    \/ analyze_dependencies
    \/ get_dependencies_of
    \/ get_dependents_of
    \/ get_file_metrics
    \/ find_circular_dependencies
    \/ get_most_coupled_files
    \/ export_to_dict

Spec == Init /\ [][Next]_vars

SpecRing == InitRing /\ [][Next]_vars

SpecStar == InitStar /\ [][Next]_vars

InitNested == InitOn("nested")

SpecNested == InitNested /\ [][Next]_vars

\* the analyzer fed by the extractor, over the files of the ring project
InitExtract == InitOn("ring")

NextExtract ==
    \/ \E in \in Project(corpus) : \E has_source, parser_opens, extractor_opens, parses \in BOOLEAN :
          extract_file(in[1], has_source, parser_opens, extractor_opens, parses, in[2])
    \/ Next

SpecExtract == InitExtract /\ [][NextExtract]_vars

---------------------------------------------------------------------------
(* Properties *)

Keys == DOMAIN files

\* the number of times x occurs in seq
CountIn(seq, x) == Cardinality({i \in 1..Len(seq) : seq[i] = x})

\* the edges were computed by a pass that no add_file has followed
Fresh == passes >= 1

\* C1: an analyze_dependencies pass that follows another one, with no
\* add_file in between, leaves graph.dependencies as the earlier pass left
\* it: the same edges, with the same multiplicities, in the same order.
AnalyzeIdempotent ==
    [][(passes >= 1 /\ passes' = passes + 1) => dependencies' = dependencies]_vars

\* a second pass has run over a graph with include edges (two of them
\* parallel) and a call edge
AnalyzedTwice ==
    /\ passes >= 2
    /\ \E i, j \in 1..Len(dependencies) :
          /\ i # j
          /\ dependencies[i].reason = "include"
          /\ dependencies[j].reason = "include"
          /\ dependencies[i].source = dependencies[j].source
          /\ dependencies[i].target = dependencies[j].target
    /\ \E i \in 1..Len(dependencies) : dependencies[i].reason = "call"

\* C2: symbol_index holds exactly the (file_path, symbol) pairs of the
\* current files map: every entry is a function, class or struct of the
\* file's current FileSymbols, and each of these is entered once, also after
\* a path has been added again.
SymbolIndexDerivable ==
    /\ \A n \in DOMAIN symbol_index : \A i \in 1..Len(symbol_index[n]) :
          LET entry == symbol_index[n][i]
          IN  /\ entry.symbol.name = n
              /\ entry.file \in Keys
              /\ CountIn(symbol_index[n], entry)
                    = CountIn(IndexedSymbols(files[entry.file]), entry.symbol)
    /\ \A f \in Keys : \A i \in 1..Len(IndexedSymbols(files[f])) :
          LET symbol == IndexedSymbols(files[f])[i]
          IN  CountIn(DictGet(symbol_index, symbol.name, <<>>),
                      [file |-> f, symbol |-> symbol])
                 = CountIn(IndexedSymbols(files[f]), symbol)

\* C3: every edge has its source and its target among the keys of
\* graph.files; and after a pass, a file has one include edge for each of its
\* includes that resolves and none for the others, and a call edge only to a
\* file that symbol_index names under one of the file's called names.
EdgesReferenceFiles ==
    /\ \A i \in 1..Len(dependencies) :
          dependencies[i].source \in Keys /\ dependencies[i].target \in Keys
    /\ Fresh => \A s \in Keys :
          /\ \A l \in 1..Len(files[s].includes) :
                Cardinality({i \in 1..Len(dependencies) :
                                /\ dependencies[i].source = s
                                /\ dependencies[i].reason = "include"
                                /\ dependencies[i].line = files[s].includes[l].line})
                   = IF ResolveInclude(files[s].includes[l].path, s) = None
                     THEN 0 ELSE 1
          /\ \A i \in 1..Len(dependencies) :
                (dependencies[i].source = s /\ dependencies[i].reason = "call")
                   => \E c \in 1..Len(files[s].function_calls) :
                         LET entries == DictGet(symbol_index, files[s].function_calls[c], <<>>)
                         IN  \E e \in 1..Len(entries) :
                                entries[e].file = dependencies[i].target

\* after a pass: a file with an include that resolves to no file and a called
\* name that no file defines, and edges in the graph
UnresolvedYieldNoEdge ==
    /\ Fresh
    /\ dependencies # <<>>
    /\ \E s \in Keys :
          /\ \E l \in 1..Len(files[s].includes) :
                ResolveInclude(files[s].includes[l].path, s) = None
          /\ \E c \in 1..Len(files[s].function_calls) :
                files[s].function_calls[c] \notin DOMAIN symbol_index

\* C4: an ordered pair of files has at most one 'call' edge, and has none
\* when an 'include' edge connects it.
CallEdgesNotRedundant ==
    \A i, j \in 1..Len(dependencies) :
        (i # j /\ dependencies[i].reason = "call")
            => \/ dependencies[i].source # dependencies[j].source
               \/ dependencies[i].target # dependencies[j].target

\* the entries of symbol_index for file t under the names that file s calls
CalledEntries(s, t) ==
    LET Entries(c) == DictGet(symbol_index, files[s].function_calls[c], <<>>)
    IN  UNION {{<<c, e>> : e \in {e \in 1..Len(Entries(c)) : Entries(c)[e].file = t}} :
                 c \in 1..Len(files[s].function_calls)}

\* after a pass: a file calls two names and several symbols of a file that
\* it includes, and has a call edge to another file that defines them too
CallsSuppressed ==
    /\ Fresh
    /\ \E s, t, u \in Keys :
          /\ s # t /\ s # u /\ t # u
          /\ Cardinality(CalledEntries(s, t)) >= 3
          /\ Cardinality(CalledEntries(s, u)) >= 3
          /\ \E i \in 1..Len(dependencies) :
                /\ dependencies[i].source = s /\ dependencies[i].target = t
                /\ dependencies[i].reason = "include"
          /\ \E i \in 1..Len(dependencies) :
                /\ dependencies[i].source = s /\ dependencies[i].target = u
                /\ dependencies[i].reason = "call"

\* C5: no 'call' edge has its source equal to its target.
NoSelfCallEdge ==
    \A i \in 1..Len(dependencies) :
        dependencies[i].reason = "call"
            => dependencies[i].source # dependencies[i].target

\* after a pass: a file calls a name that it defines itself and that another
\* file defines too, and has a call edge to that other file
CallsOwnName ==
    /\ Fresh
    /\ \E s, t \in Keys :
          /\ s # t
          /\ \E c \in 1..Len(files[s].function_calls) :
                LET entries == DictGet(symbol_index, files[s].function_calls[c], <<>>)
                IN  /\ \E e \in 1..Len(entries) : entries[e].file = s
                    /\ \E e \in 1..Len(entries) : entries[e].file = t
          /\ \E i \in 1..Len(dependencies) :
                /\ dependencies[i].source = s /\ dependencies[i].target = t
                /\ dependencies[i].reason = "call"

\* C6: an include path that is a key of graph.files resolves to that key,
\* from every source file.
ExactIncludeResolvesToItself ==
    \A include_path \in Keys : \A source_file \in PathsOf(corpus) :
        ResolveInclude(include_path, source_file) = include_path

\* a key whose file name file_index maps to another file, added later
NameIndexedElsewhere ==
    \E include_path \in Keys :
        /\ file_index[PathName(include_path)] # include_path
        /\ ResolveInclude(include_path, P_M) = include_path

\* the file names of the keys that two or more keys share and that are not
\* themselves a key
CollidingNames ==
    {name \in {PathName(p) : p \in Keys} :
        /\ name \notin Keys
        /\ Cardinality({p \in Keys : PathName(p) = name}) >= 2}

\* the file_path of the last add_file call for a file of that name
LastAdded(name) ==
    LET S == {i \in 1..Len(addLog) : PathName(addLog[i]) = name}
    IN  addLog[CHOOSE i \in S : \A j \in S : j <= i]

\* C7: when two or more files of one file name are in the graph and that
\* bare name is no key, including the bare name resolves to the file of that
\* name whose add_file call was the last one.
BareNameResolvesToLastAdded ==
    \A name \in CollidingNames : \A source_file \in PathsOf(corpus) :
        ResolveInclude(name, source_file) = LastAdded(name)

\* two files of one name, the one added last being the one that was first
\* put into graph.files (it was added again)
LastAddedIsNotLastKey ==
    \E name \in CollidingNames :
        LET S == {i \in 1..Len(fileKeys) : PathName(fileKeys[i]) = name}
        IN  /\ ResolveInclude(name, P_M) = LastAdded(name)
            /\ LastAdded(name) = fileKeys[CHOOSE i \in S : \A j \in S : i <= j]

\* the edges that leave file f and the edges that enter it
OutEdges(f) == {i \in 1..Len(dependencies) : dependencies[i].source = f}

InEdges(f) == {i \in 1..Len(dependencies) : dependencies[i].target = f}

\* C8: the coupling of a file in get_file_metrics is the number of edges that
\* leave it plus the number that enter it (every parallel edge counted, a
\* self-edge counted on both sides), which is
\* len(get_dependencies_of) + len(get_dependents_of) and the value that
\* get_most_coupled_files reports for the file.
CouplingIsDegreeSum ==
    \A f \in Keys :
        /\ GetFileMetrics(f).coupling = Cardinality(OutEdges(f)) + Cardinality(InEdges(f))
        /\ GetFileMetrics(f).coupling
              = Len(GetDependenciesOf(f)) + Len(GetDependentsOf(f))
        /\ \E k \in 1..Len(GetMostCoupledFiles(Len(fileKeys))) :
              GetMostCoupledFiles(Len(fileKeys))[k] = <<f, GetFileMetrics(f).coupling>>
        /\ \A limit \in 0..Len(fileKeys) : \A k \in 1..Len(GetMostCoupledFiles(limit)) :
              GetMostCoupledFiles(limit)[k][1] = f
                  => GetMostCoupledFiles(limit)[k][2] = GetFileMetrics(f).coupling

\* a file with two parallel edges to another file, and a file with an edge to
\* itself
ParallelAndSelfEdges ==
    /\ \E i, j \in 1..Len(dependencies) :
          /\ i # j
          /\ dependencies[i].source = dependencies[j].source
          /\ dependencies[i].target = dependencies[j].target
          /\ dependencies[i].source # dependencies[i].target
    /\ \E i \in 1..Len(dependencies) :
          /\ dependencies[i].source = dependencies[i].target
          /\ GetFileMetrics(dependencies[i].source).coupling >= 2

\* graph.dependencies collapsed to its distinct (source, target) pairs
EdgePairs ==
    {<<dependencies[i].source, dependencies[i].target>> : i \in 1..Len(dependencies)}

\* the sequences of distinct files, of every length from 1
DistinctSeqs(S) ==
    {c \in UNION {[1..n -> S] : n \in 1..Cardinality(S)} :
        \A i, j \in 1..Len(c) : i # j => c[i] # c[j]}

\* c is a simple directed cycle of the edge pairs E: every node is followed
\* by its successor, the last one by the first
IsSimpleCycle(c, E) ==
    /\ \A i, j \in 1..Len(c) : i # j => c[i] # c[j]
    /\ \A i \in 1..Len(c) : <<c[i], c[(i % Len(c)) + 1]>> \in E

Rotations(c) ==
    {[i \in 1..Len(c) |-> c[((i + k - 1) % Len(c)) + 1]] : k \in 0..(Len(c) - 1)}

\* the pairs that a path of one or more edges of E connects
RECURSIVE ReachPairs(_, _, _)
ReachPairs(E, R, steps) ==
    IF steps = 0 THEN R
    ELSE ReachPairs(E,
                    R \cup {<<xy[1][1], xy[2][2]>> :
                               xy \in {xy \in R \X E : xy[1][2] = xy[2][1]}},
                    steps - 1)

Acyclic(E) == \A f \in Keys : <<f, f>> \notin ReachPairs(E, E, Cardinality(Keys))

\* the number of times the returned list holds a rotation of c
TimesReturned(c) ==
    LET found == Rotations(c) \cap DOMAIN FindCircularDependencies
    IN  IF found = {} THEN 0
        ELSE IF Cardinality(found) > 1 THEN 2
        ELSE FindCircularDependencies[CHOOSE r \in found : TRUE]

\* C9: find_circular_dependencies returns the simple directed cycles of the
\* collapsed edge pairs and nothing else, each of them once up to rotation:
\* nothing when the pairs are acyclic, one cycle over {A, B, C} for A->B,
\* B->C, C->A, however many parallel edges the pairs have.
AllSimpleCyclesOnce ==
    /\ \A c \in DOMAIN FindCircularDependencies : IsSimpleCycle(c, EdgePairs)
    /\ \A c \in DistinctSeqs(Keys) :
          IsSimpleCycle(c, EdgePairs) => TimesReturned(c) = 1
    /\ Acyclic(EdgePairs) <=> FindCircularDependencies = <<>>
    /\ EdgePairs = {<<P_A, P_B>>, <<P_B, P_C>>, <<P_C, P_A>>}
          => /\ Cardinality(DOMAIN FindCircularDependencies) = 1
             /\ \A c \in DOMAIN FindCircularDependencies :
                   /\ {c[i] : i \in 1..Len(c)} = {P_A, P_B, P_C}
                   /\ FindCircularDependencies[c] = 1

\* the ring A->B, B->C, C->A, with two parallel edges from A to B
RingWithParallelEdges ==
    /\ EdgePairs = {<<P_A, P_B>>, <<P_B, P_C>>, <<P_C, P_A>>}
    /\ Len(dependencies) = 4
    /\ Cardinality(DOMAIN FindCircularDependencies) = 1

\* the place of a file's first add_file call among all add_file calls
FirstAdded(f) ==
    LET S == {i \in 1..Len(addLog) : addLog[i] = f}
    IN  CHOOSE i \in S : \A j \in S : i <= j

\* file f comes before file g in the ranking: its coupling is higher, or the
\* same and f was put into graph.files first
RanksBefore(f, g) ==
    LET Degree(x) == Cardinality(OutEdges(x)) + Cardinality(InEdges(x))
    IN  \/ Degree(f) > Degree(g)
        \/ Degree(f) = Degree(g) /\ FirstAdded(f) < FirstAdded(g)

\* the edges are those of a star: from hub to each of the other files, four
\* or more, and no others
IsStar(hub) ==
    /\ Cardinality(Keys) >= 5
    /\ EdgePairs = {<<hub, f>> : f \in Keys \ {hub}}
    /\ Len(dependencies) = Cardinality(Keys) - 1

\* C10: get_most_coupled_files(limit), for a limit of 0 or more, returns the
\* first limit files of the ranking (all of them when there are fewer), each
\* with its coupling: in non-increasing order of coupling, files of equal
\* coupling in the order of their first insertion into graph.files; the hub
\* of a star with four leaves comes first.
MostCoupledRanked ==
    /\ \A limit \in 0..(Len(fileKeys) + 1) :
          LET R == GetMostCoupledFiles(limit)
          IN  /\ Len(R) <= limit
              /\ Len(R) = IF limit < Cardinality(Keys) THEN limit ELSE Cardinality(Keys)
              /\ \A i \in 1..Len(R) :
                    /\ R[i][1] \in Keys
                    /\ R[i][2] = Cardinality(OutEdges(R[i][1])) + Cardinality(InEdges(R[i][1]))
              /\ \A i, j \in 1..Len(R) :
                    /\ i < j => R[i][2] >= R[j][2]
                    /\ i < j => RanksBefore(R[i][1], R[j][1])
              /\ \A f \in Keys \ {R[i][1] : i \in 1..Len(R)} :
                    \A i \in 1..Len(R) : RanksBefore(R[i][1], f)
    /\ \A hub \in Keys : IsStar(hub) => GetMostCoupledFiles(2)[1][1] = hub

\* a star whose hub was the last file put into graph.files, and whose leaves
\* have equal coupling
StarHubFirst ==
    /\ IsStar(P_M)
    /\ fileKeys[Len(fileKeys)] = P_M
    /\ GetMostCoupledFiles(2) = <<<<P_M, 4>>, <<fileKeys[1], 1>>>>

\* the simple cycles of the edge pairs, one sequence for each of them: the
\* rotation that starts at the cycle's first file in graph.files' key order
CyclesOfPairs ==
    LET Place(f) == CHOOSE i \in 1..Len(fileKeys) : fileKeys[i] = f
    IN  {c \in DistinctSeqs(Keys) :
            /\ IsSimpleCycle(c, EdgePairs)
            /\ \A i \in 2..Len(c) : Place(c[1]) < Place(c[i])}

\* C11: in the document of export_to_dict, links holds the edges of
\* graph.dependencies one for one and in their order, and total_dependencies
\* is their number; nodes holds the keys of graph.files in their order, and
\* total_files is their number; circular_dependencies is the number of
\* cycles that find_circular_dependencies returns.
ExportCountsAgree ==
    LET doc == ExportToDict
    IN  /\ doc.metadata.total_dependencies = Len(doc.links)
        /\ Len(doc.links) = Len(dependencies)
        /\ \A i \in 1..Len(dependencies) :
              /\ doc.links[i].source = dependencies[i].source
              /\ doc.links[i].target = dependencies[i].target
              /\ doc.links[i].reason = dependencies[i].reason
        /\ doc.metadata.total_files = Len(doc.nodes)
        /\ Len(doc.nodes) = Cardinality(Keys)
        /\ {doc.nodes[i].id : i \in 1..Len(doc.nodes)} = Keys
        /\ doc.metadata.circular_dependencies = BagCardinality(FindCircularDependencies)
        /\ doc.metadata.circular_dependencies = Cardinality(CyclesOfPairs)

\* a graph of three files with parallel edges and two cycles
ExportedWithCycles ==
    /\ Fresh
    /\ Cardinality(Keys) = 3
    /\ Len(dependencies) > Cardinality(EdgePairs)
    /\ ExportToDict.metadata.circular_dependencies = 2
    /\ ExportToDict.metadata.total_dependencies = 5

\* C12: extract_file never raises, and when the parser yields no tree it
\* returns a FileSymbols for the path with every list and the call set empty.
ExtractNeverRaises ==
    /\ extracted.outcome # "raised"
    /\ (extracted.outcome = "returned" /\ extracted.root_node = NoTree)
          => extracted.symbols = EmptyFileSymbols

\* the orders in which a set, held as the sequence seq, can iterate
Orders(seq) ==
    {order \in [1..Len(seq) -> {seq[i] : i \in 1..Len(seq)}] :
        \A i, j \in 1..Len(seq) : i # j => order[i] # order[j]}

\* the run in which the function_calls set of file_path iterates in order
Reordered(file_path, order) == [files EXCEPT ![file_path].function_calls = order]

\* C13: for identical input the sequence of edges does not depend on the
\* iteration order of the function_calls set of any file.
EdgeOrderDeterministic ==
    Fresh => \A file_path \in Keys :
                \A order \in Orders(files[file_path].function_calls) :
                    AnalyzeFilesOf(<<>>, fileKeys, Reordered(file_path, order))
                        = dependencies

\* a path with a directory part
IsNested(path) == LastSlash(path) > 0

\* C14: an include path that is a partial nested path, is not a file key and
\* is a literal suffix of a known file-path resolves to a known file-path
\* that ends with it, whatever other files of the same basename exist.
NestedIncludeResolvesToSuffix ==
    \A include_path \in PathsOf(corpus) \ Keys : \A source_file \in Keys :
        (IsNested(include_path) /\ \E k \in Keys : EndsWith(k, include_path))
            => /\ ResolveInclude(include_path, source_file) \in Keys
               /\ EndsWith(ResolveInclude(include_path, source_file), include_path)

\* an edge from s to t with the reason given
HasEdge(s, t, reason) ==
    \E i \in 1..Len(dependencies) :
        /\ dependencies[i].source = s /\ dependencies[i].target = t
        /\ dependencies[i].reason = reason

\* C15: after a pass, every file t other than s that has an entry in
\* symbol_index under a name that s calls has an edge from s, of either
\* reason: every definition of a called name is a dependency target.
EveryDefinitionIsEdged ==
    Fresh => \A s, t \in Keys :
                (s # t /\ CalledEntries(s, t) # {})
                    => (HasEdge(s, t, "include") \/ HasEdge(s, t, "call"))

\* after a pass: one called name is defined in two other files, neither of
\* them included, and each of the two has a call edge
CallsNameDefinedTwice ==
    /\ Fresh
    /\ \E s, t, u \in Keys :
          /\ s # t /\ s # u /\ t # u
          /\ \E c \in 1..Len(files[s].function_calls) :
                LET entries == DictGet(symbol_index, files[s].function_calls[c], <<>>)
                IN  /\ \E e \in 1..Len(entries) : entries[e].file = t
                    /\ \E e \in 1..Len(entries) : entries[e].file = u
          /\ HasEdge(s, t, "call") /\ ~HasEdge(s, t, "include")
          /\ HasEdge(s, u, "call") /\ ~HasEdge(s, u, "include")

\* C16: a step that is not an add_file (a pass or a query) leaves
\* graph.files, graph.file_index and graph.symbol_index as they were, and a
\* step that is not a pass (an add_file or a query) leaves
\* graph.dependencies as it was: edges change only in analyze_dependencies.
FrameConditions ==
    [][/\ addLog' = addLog
            => UNCHANGED <<fileKeys, files, file_index, symbol_index>>
       /\ passes' # passes + 1 => dependencies' = dependencies]_vars

\* a file was added after a pass: the edges of the pass are still there and
\* are not the edges that a pass over the present files gives
StaleEdgesKept ==
    /\ passes = 0
    /\ dependencies # <<>>
    /\ dependencies # AnalyzeFiles(<<>>, fileKeys)

\* some known file has the file name of the include path
NameKnown(include_path) ==
    \E k \in Keys : PathName(k) = PathName(include_path)

\* some known file-path ends with the include path
SuffixKnown(include_path) == \E k \in Keys : EndsWith(k, include_path)

\* what C17 says of one include path seen from one source file: if it is
\* no key and some known file has its file name it resolves to
\* file_index[name], the last-added file of that name; when strategies 1 to
\* 3 find nothing, strategies 4 and 5 find nothing either; and the result is
\* None exactly when no known file has the name and no known file-path ends
\* with the include path
DecidedEarly(include_path, source_file) ==
    LET target_file == ResolveInclude(include_path, source_file)
    IN  /\ (include_path \notin Keys /\ NameKnown(include_path))
              => /\ target_file = file_index[PathName(include_path)]
                 /\ target_file = LastAdded(PathName(include_path))
        /\ (/\ ExactMatch(include_path) = None
            /\ FilenameMatch(include_path) = None
            /\ SuffixMatch(include_path) = None)
              => /\ RelativeMatch(include_path, source_file) = None
                 /\ NameScan(include_path) = None
        /\ target_file = None
              <=> (~NameKnown(include_path) /\ ~SuffixKnown(include_path))

\* C17: in every state reachable through add_file, strategies 1 to 3 decide
\* the result of _resolve_include for every include path and source file.
EarlyStrategiesDecide ==
    \A include_path \in PathsOf(corpus) : \A source_file \in PathsOf(corpus) :
        DecidedEarly(include_path, source_file)

\* C17, for the include paths that have a file name (Path(p).name is not
\* empty, as it is for "."): strategies 1 to 3 decide the result.
EarlyStrategiesDecideNamed ==
    \A include_path \in PathsOf(corpus) : \A source_file \in PathsOf(corpus) :
        PathName(include_path) # <<>> => DecidedEarly(include_path, source_file)

\* a file includes a partial path that names a file of its own directory
\* tree, and the include resolves to a file of another directory
RelativeCandidateIgnored ==
    \E source_file \in Keys : \E i \in DOMAIN files[source_file].includes :
        LET include_path == files[source_file].includes[i].path
        IN  /\ include_path \notin Keys
            /\ RelativeMatch(include_path, source_file) # None
            /\ ResolveInclude(include_path, source_file) # None
            /\ RelativeMatch(include_path, source_file)
                  # ResolveInclude(include_path, source_file)

===========================================================================
